---------------------------- MODULE Spec2Model ----------------------------
(***************************************************************************)
(* Model of the staking predeploy helper (package staking).               *)
(*                                                                         *)
(* PredeployStakingSC builds the genesis account of the staking smart      *)
(* contract: the contract code, a storage map that makes the given         *)
(* validators appear as already staked, and the matching balance.          *)
(*                                                                         *)
(* Representation.  A []byte, a types.Hash and a types.Address are         *)
(* sequences of bytes (0..255), most significant byte first.  A *big.Int   *)
(* is a record [neg, abs] whose abs is the magnitude as the minimal        *)
(* big-endian byte sequence (what Bytes() returns).  A uint64 is a         *)
(* sequence of 8 bytes.  A Go string is a sequence of one-character        *)
(* strings.  Numbers of the program exceed the integers of the model       *)
(* checker, hence the byte-wise arithmetic.                                *)
(***************************************************************************)
EXTENDS Integers, Sequences, FiniteSets, TLC

\* Longest validator list an invocation is called with.
MaxValidators == 3

\* The invocations: the second one acts only in SpecPair.
Procs == {1, 2}

\* n zero bytes.
Zeros(n) == [i \in 1..n |-> 0]

\* Bytes s[from..Len(s)].
Suffix(s, from) == SubSeq(s, from, Len(s))

\* The least element of a non-empty set of integers.
Min(S) == CHOOSE x \in S : \A y \in S : x <= y

\* big.Int keeps no leading zero bytes (SetBytes, Add normalise).
StripZeros(s) ==
  LET nonzero == {i \in 1..Len(s) : s[i] # 0}
  IN IF nonzero = {} THEN <<>> ELSE Suffix(s, Min(nonzero))

RECURSIVE NatBytes(_)
\* Minimal big-endian bytes of a natural number (empty for 0).
NatBytes(n) == IF n = 0 THEN <<>> ELSE Append(NatBytes(n \div 256), n % 256)

---------------------------------------------------------------------------
(* helper/common.PadLeftOrTrim and types.BytesToHash, as called in         *)
(* getAddressMapping, getStorageIndexes and PredeployStakingSC.            *)

PadLeftOrTrim(bb, size) ==
  LET l == Len(bb) IN
  IF l = size THEN bb
  ELSE IF l > size THEN Suffix(bb, l - size + 1)
  ELSE Zeros(size - l) \o bb

\* types.BytesToHash copies the last 32 bytes of b, right-aligned, into a
\* 32-byte hash.
BytesToHash(b) ==
  LET min == IF Len(b) < 32 THEN Len(b) ELSE 32 IN
  Zeros(32 - min) \o Suffix(b, Len(b) - min + 1)

\* The zero value of types.Hash.
ZeroHash == Zeros(32)

---------------------------------------------------------------------------
(* math/big on non-negative magnitudes.                                    *)

\* The carry out of byte i when the equal-length a and b are added: some
\* byte j at or below i overflows, and the bytes from i to j propagate it.
CarryOut(a, b, i) ==
  \E j \in i..Len(a) :
    /\ a[j] + b[j] >= 256
    /\ \A k \in i..(j - 1) : a[k] + b[k] = 255

\* The sum of two magnitudes, byte by byte with the carry.
AddBytes(a, b) ==
  LET l == IF Len(a) > Len(b) THEN Len(a) ELSE Len(b)
      x == Zeros(l - Len(a)) \o a
      y == Zeros(l - Len(b)) \o b
      c(i) == IF i <= l /\ CarryOut(x, y, i) THEN 1 ELSE 0
  IN StripZeros(<<c(1)>> \o [i \in 1..l |-> (x[i] + y[i] + c(i + 1)) % 256])

RECURSIVE MulSmall(_, _)
\* The magnitude a times a small natural number n.
MulSmall(a, n) == IF n = 0 THEN <<>> ELSE AddBytes(MulSmall(a, n - 1), a)

\* big.NewInt(x) for a small non-negative x (slot numbers, offsets, 0, 1).
BigNewInt(x) == [neg |-> FALSE, abs |-> NatBytes(x)]

\* big.Int.Bytes(): the magnitude, the sign is dropped.
Bytes(x) == x.abs

\* big.Int.SetBytes(b): b read as an unsigned big-endian number.
SetBytes(b) == [neg |-> FALSE, abs |-> StripZeros(b)]

\* Faulty variant: Add stores the second operand instead of the sum.
BigAdd_Overwrite(x, y) == [neg |-> FALSE, abs |-> y.abs]

\* big.Int.Add on non-negative operands (the only ones the program adds).
BigAdd(x, y) == [neg |-> FALSE, abs |-> AddBytes(x.abs, y.abs)]

Complement(s) == [i \in 1..Len(s) |-> 255 - s[i]]

\* big.NewInt(int64(u)) for a uint64 u: the conversion reinterprets the 64
\* bits as two's complement, so u >= 2^63 becomes the negative u - 2^64.
BigNewIntOfUint64(u) ==
  IF u[1] >= 128
  THEN [neg |-> TRUE,
        abs |-> AddBytes(Complement(u), <<1>>)]
  ELSE [neg |-> FALSE, abs |-> StripZeros(u)]

\* uint64(n) for a small natural number n.
Uint64(n) == PadLeftOrTrim(NatBytes(n), 8)

---------------------------------------------------------------------------
(* helper/hex, encoding/hex, strconv and types.StringToHash.               *)

LowerHex == <<"0","1","2","3","4","5","6","7","8","9","a","b","c","d","e","f">>

UpperHex == <<"0","1","2","3","4","5","6","7","8","9","A","B","C","D","E","F">>

IsHexChar(c) == \E i \in 1..16 : LowerHex[i] = c \/ UpperHex[i] = c

\* encoding/hex's reverseHexTable: the value of a hexadecimal digit.
FromHexChar(c) == (CHOOSE i \in 1..16 : LowerHex[i] = c \/ UpperHex[i] = c) - 1

IsDecChar(c) == \E i \in 1..10 : LowerHex[i] = c

HasPrefix0x(str) == Len(str) >= 2 /\ str[1] = "0" /\ str[2] = "x"

\* strings.TrimPrefix(str, "0x").
TrimPrefix0x(str) == IF HasPrefix0x(str) THEN Suffix(str, 3) ELSE str

\* encoding/hex.DecodeString: the pairs of digits are decoded up to the
\* first character that is no digit; the bytes decoded so far come back
\* with the error (InvalidByteError, or ErrLength for a last digit left
\* without its pair).
DecodeString(src) ==
  LET bad == {j \in 1..Len(src) : ~IsHexChar(src[j])}
      pairs == IF bad = {} THEN Len(src) \div 2 ELSE (Min(bad) - 1) \div 2
  IN [bytes |-> [i \in 1..pairs |->
                   FromHexChar(src[2 * i - 1]) * 16 + FromHexChar(src[2 * i])],
      err |-> IF bad # {} THEN "InvalidByteError"
              ELSE IF Len(src) % 2 = 1 THEN "ErrLength" ELSE "nil"]

\* helper/hex.DecodeHex: TrimPrefix "0x", then DecodeString.
DecodeHex(str) == DecodeString(TrimPrefix0x(str))

\* Two lower-case digits per byte.
HexOfBytes(b) ==
  [i \in 1..(2 * Len(b)) |->
     IF i % 2 = 1 THEN LowerHex[(b[(i + 1) \div 2] \div 16) + 1]
     ELSE LowerHex[(b[i \div 2] % 16) + 1]]

StripZeroChars(s) ==
  LET nonzero == {i \in 1..Len(s) : s[i] # "0"}
  IN IF nonzero = {} THEN <<>> ELSE Suffix(s, Min(nonzero))

\* The digits of a number in base 16 without leading zeros, "0" for zero.
HexDigits(b) ==
  LET d == StripZeroChars(HexOfBytes(b))
  IN IF d = <<>> THEN <<"0">> ELSE d

\* helper/hex.EncodeBig: "0x0" for zero, else fmt.Sprintf("%#x", bigint).
EncodeBig(x) ==
  IF x.abs = <<>> THEN <<"0", "x", "0">>
  ELSE (IF x.neg THEN <<"-">> ELSE <<>>) \o <<"0", "x">> \o HexDigits(x.abs)

\* helper/hex.EncodeUint64: "0x" and strconv.AppendUint(i, 16).
EncodeUint64(u) == <<"0", "x">> \o HexDigits(u)

\* Faulty variant: no "0" in front of an odd number of digits.
StringToBytes_NoPad(str) == DecodeString(TrimPrefix0x(str)).bytes

\* types.StringToBytes: TrimPrefix "0x", a "0" in front of an odd number of
\* digits, DecodeString with its error dropped.
StringToBytes(str) ==
  LET s == TrimPrefix0x(str)
      even == IF Len(s) % 2 = 1 THEN <<"0">> \o s ELSE s
  IN DecodeString(even).bytes

StringToHash(str) == BytesToHash(StringToBytes(str))

\* The magnitude of a string of hexadecimal digits: two digits per byte.
HexMagnitude(str) ==
  LET s == IF Len(str) % 2 = 1 THEN <<"0">> \o str ELSE str
  IN StripZeros([i \in 1..(Len(s) \div 2) |->
                   FromHexChar(s[2 * i - 1]) * 16 + FromHexChar(s[2 * i])])

RECURSIVE DecMagnitude(_)
\* The magnitude of a string of decimal digits.
DecMagnitude(str) ==
  IF str = <<>> THEN <<>>
  ELSE AddBytes(MulSmall(DecMagnitude(SubSeq(str, 1, Len(str) - 1)), 10),
                NatBytes(FromHexChar(str[Len(str)])))

\* Faulty variant: a literal that does not parse reads as zero, without error.
ParseUint256orHex_NoError(val) ==
  LET hex == HasPrefix0x(val)
      str == IF hex THEN Suffix(val, 3) ELSE val
      ok == /\ str # <<>>
            /\ \A i \in 1..Len(str) :
                 IF hex THEN IsHexChar(str[i]) ELSE IsDecChar(str[i])
  IN [big |-> [neg |-> FALSE,
               abs |-> IF ~ok THEN <<>>
                       ELSE IF hex THEN HexMagnitude(str)
                       ELSE DecMagnitude(str)],
      err |-> "nil"]

\* types.ParseUint256orHex on an unsigned literal: base 16 after "0x", else
\* base 10; big.Int.SetString fails on an empty string and on a
\* character that is no digit of the base.
ParseUint256orHex(val) ==
  LET hex == HasPrefix0x(val)
      str == IF hex THEN Suffix(val, 3) ELSE val
      ok == /\ str # <<>>
            /\ \A i \in 1..Len(str) :
                 IF hex THEN IsHexChar(str[i]) ELSE IsDecChar(str[i])
  IN IF ok
     THEN [big |-> [neg |-> FALSE,
                    abs |-> IF hex THEN HexMagnitude(str)
                            ELSE DecMagnitude(str)],
           err |-> "nil"]
     ELSE [big |-> [neg |-> FALSE, abs |-> <<>>], err |-> "could not parse"]

---------------------------------------------------------------------------
(* The validator addresses of the model and helper/keccak.Keccak256 on     *)
(* the inputs they give rise to.                                           *)

\* 0x1111111111111111111111111111111111111111
AddrA ==
  <<17,17,17,17,17,17,17,17,17,17,
    17,17,17,17,17,17,17,17,17,17>>

\* 0x2222222222222222222222222222222222222222
AddrB ==
  <<34,34,34,34,34,34,34,34,34,34,
    34,34,34,34,34,34,34,34,34,34>>

\* 0x3333333333333333333333333333333333333333
AddrC ==
  <<51,51,51,51,51,51,51,51,51,51,
    51,51,51,51,51,51,51,51,51,51>>

Addresses == {AddrA, AddrB, AddrC}

\* Keccak-256 digests of the 32-byte slot words 0..6 and of the 64-byte
\* words (address, slot) for slots 0..4, computed with the reference
\* permutation (Keccak256("") = c5d246...a470).
KeccakTable ==
  {[in |-> Zeros(31) \o <<0>>,
    out |-> <<41,13,236,217,84,139,98,168,214,3,69,169,136,56,111,200,
          75,166,188,149,72,64,8,246,54,47,147,22,14,243,229,99>>],
   [in |-> Zeros(31) \o <<1>>,
    out |-> <<177,14,45,82,118,18,7,59,38,238,205,253,113,126,106,50,
          12,244,75,74,250,194,176,115,45,159,203,226,183,250,12,246>>],
   [in |-> Zeros(31) \o <<2>>,
    out |-> <<64,87,135,250,18,168,35,224,242,183,99,28,196,27,59,168,
          130,139,51,33,202,129,17,17,250,117,205,58,163,187,90,206>>],
   [in |-> Zeros(31) \o <<3>>,
    out |-> <<194,87,90,14,158,89,60,0,249,89,248,201,47,18,219,40,
          105,195,57,90,59,5,2,208,94,37,22,68,111,113,248,91>>],
   [in |-> Zeros(31) \o <<4>>,
    out |-> <<138,53,172,251,193,95,248,26,57,174,125,52,79,215,9,242,
          142,134,0,180,170,140,101,198,182,75,254,127,227,107,209,155>>],
   [in |-> Zeros(31) \o <<5>>,
    out |-> <<3,107,99,132,181,236,167,145,198,39,97,21,45,12,121,187,
          6,4,193,4,165,251,111,78,176,112,63,49,84,187,61,176>>],
   [in |-> Zeros(31) \o <<6>>,
    out |-> <<246,82,34,35,19,226,132,89,82,141,146,11,101,17,92,22,
          192,79,62,252,130,170,237,201,123,229,159,63,55,124,13,63>>],
   [in |-> Zeros(12) \o AddrA \o Zeros(31) \o <<0>>,
    out |-> <<240,67,197,15,231,149,198,159,48,184,255,120,184,64,50,220,
          83,169,216,124,162,131,174,16,161,218,207,187,100,142,131,239>>],
   [in |-> Zeros(12) \o AddrA \o Zeros(31) \o <<1>>,
    out |-> <<142,236,28,154,251,24,58,132,170,199,0,60,248,231,48,191,
          182,56,95,110,67,118,29,100,37,251,164,38,93,227,169,235>>],
   [in |-> Zeros(12) \o AddrA \o Zeros(31) \o <<2>>,
    out |-> <<6,187,27,155,196,41,59,160,102,161,34,116,65,139,126,164,
          223,24,60,46,78,107,57,89,25,135,54,149,32,202,57,86>>],
   [in |-> Zeros(12) \o AddrA \o Zeros(31) \o <<3>>,
    out |-> <<252,64,234,51,129,100,83,247,102,235,192,135,45,75,81,82,
          180,104,136,42,190,123,107,53,82,128,105,219,77,110,65,196>>],
   [in |-> Zeros(12) \o AddrA \o Zeros(31) \o <<4>>,
    out |-> <<183,52,53,73,169,83,111,57,22,113,195,5,12,102,222,177,
          175,15,62,222,150,136,235,132,123,48,68,126,85,214,40,90>>],
   [in |-> Zeros(12) \o AddrB \o Zeros(31) \o <<0>>,
    out |-> <<86,19,107,219,2,180,78,129,129,32,21,65,67,201,34,217,
          72,94,25,229,183,40,142,113,118,218,24,67,145,212,69,124>>],
   [in |-> Zeros(12) \o AddrB \o Zeros(31) \o <<1>>,
    out |-> <<198,17,251,55,39,85,222,144,242,71,114,183,199,77,197,37,
          119,148,20,193,94,80,79,205,151,75,105,133,132,2,206,26>>],
   [in |-> Zeros(12) \o AddrB \o Zeros(31) \o <<2>>,
    out |-> <<116,180,131,3,182,104,201,150,192,155,97,13,175,47,83,248,
          52,72,221,21,185,172,87,233,232,251,31,242,247,69,199,29>>],
   [in |-> Zeros(12) \o AddrB \o Zeros(31) \o <<3>>,
    out |-> <<83,175,66,208,168,191,89,3,236,188,21,155,162,246,224,250,
          45,192,22,91,254,145,26,206,49,22,119,197,98,17,66,118>>],
   [in |-> Zeros(12) \o AddrB \o Zeros(31) \o <<4>>,
    out |-> <<206,83,239,62,141,154,167,225,143,196,77,131,120,20,95,44,
          180,177,138,141,205,29,222,134,118,56,247,7,29,170,233,133>>],
   [in |-> Zeros(12) \o AddrC \o Zeros(31) \o <<0>>,
    out |-> <<10,225,54,158,152,169,38,162,89,90,206,102,95,144,199,151,
          107,106,134,175,188,173,179,193,206,238,36,153,140,8,116,53>>],
   [in |-> Zeros(12) \o AddrC \o Zeros(31) \o <<1>>,
    out |-> <<105,164,173,38,231,60,216,28,138,63,76,54,248,173,49,185,
          230,69,233,137,133,149,72,2,81,219,202,126,159,120,165,39>>],
   [in |-> Zeros(12) \o AddrC \o Zeros(31) \o <<2>>,
    out |-> <<192,66,224,245,235,0,100,191,29,151,34,236,24,227,159,130,
          122,44,244,145,180,157,45,76,52,165,236,247,166,27,68,183>>],
   [in |-> Zeros(12) \o AddrC \o Zeros(31) \o <<3>>,
    out |-> <<62,120,71,140,43,5,214,124,72,85,8,206,217,248,21,225,
          6,116,133,244,170,26,127,176,207,88,121,183,35,146,53,91>>],
   [in |-> Zeros(12) \o AddrC \o Zeros(31) \o <<4>>,
    out |-> <<35,4,8,61,104,199,211,48,70,57,46,198,250,124,92,113,
          196,199,23,206,18,207,126,129,51,57,16,109,45,253,142,11>>]}

\* keccak.Keccak256(nil, input).
Keccak256(input) == (CHOOSE e \in KeccakTable : e.in = input).out

---------------------------------------------------------------------------
(* State.                                                                  *)

VARIABLES
  \* package-level variables and constants
  MinValidatorCount, MaxValidatorCount,
  validatorsSlot, addressToIsValidatorSlot, addressToStakedAmountSlot,
  addressToValidatorIndexSlot, stakedAmountSlot,
  minNumValidatorSlot, maxNumValidatorSlot,
  DefaultStakedBalance, StakingSCBytecode,
  \* per invocation of PredeployStakingSC: arguments, locals, position, result
  pc, validators, params,
  stakingAccount, bigDefaultStakedBalance,
  storageMap, bigTrueValue, stakedAmount,
  bigMinNumValidators, bigMaxNumValidators, indx,
  ret,
  \* the last two calls of getAddressMapping and of getStorageIndexes made
  \* on their own, each with its arguments and its result
  mappingCalls, indexCalls

pkgVars == <<MinValidatorCount, MaxValidatorCount,
             validatorsSlot, addressToIsValidatorSlot,
             addressToStakedAmountSlot, addressToValidatorIndexSlot,
             stakedAmountSlot, minNumValidatorSlot, maxNumValidatorSlot,
             DefaultStakedBalance, StakingSCBytecode>>

localVars == <<stakingAccount, bigDefaultStakedBalance, storageMap,
               bigTrueValue, stakedAmount, bigMinNumValidators,
               bigMaxNumValidators, indx>>

callVars == <<mappingCalls, indexCalls>>

vars == <<pkgVars, pc, validators, params, localVars, ret, callVars>>

---------------------------------------------------------------------------
(* Storage indexes.                                                        *)

\* Faulty variant: the slot is left out of the hashed bytes.
getAddressMapping_SlotIgnored(address, slot) ==
  LET bigSlot == BigNewInt(0)
      finalSlice == PadLeftOrTrim(address, 32)
                      \o PadLeftOrTrim(Bytes(bigSlot), 32)
  IN Keccak256(finalSlice)

\* getAddressMapping: keccak(pad32(address) . pad32(slot)).
getAddressMapping(address, slot) ==
  LET bigSlot == BigNewInt(slot)
      finalSlice == PadLeftOrTrim(address, 32)
                      \o PadLeftOrTrim(Bytes(bigSlot), 32)
  IN Keccak256(finalSlice)

\* Faulty variant: the offset is added to the last byte and the carry is lost.
getIndexWithOffset_NoCarry(keccakHash, offset) ==
  [i \in 1..Len(keccakHash) |->
     IF i = Len(keccakHash) THEN (keccakHash[i] + (offset % 256)) % 256
     ELSE keccakHash[i]]

\* Faulty variant: only the low byte of the offset is added.
getIndexWithOffset_LowByte(keccakHash, offset) ==
  LET bigOffset == BigNewInt(offset % 256)
      bigKeccak == SetBytes(keccakHash)
  IN Bytes(BigAdd(bigKeccak, bigOffset))

\* Faulty variant: the offset is not added.
getIndexWithOffset_NoOffset(keccakHash, offset) == Bytes(SetBytes(keccakHash))

\* getIndexWithOffset: the hash read as a number, plus the offset.
getIndexWithOffset(keccakHash, offset) ==
  LET bigOffset == BigNewInt(offset)
      bigKeccak == SetBytes(keccakHash)
  IN Bytes(BigAdd(bigKeccak, bigOffset))

\* Faulty variant: the array length is addressed by the staked-total slot.
getStorageIndexes_SizeInAmountSlot(address, index) ==
  [AddressToIsValidatorIndex |->
     getAddressMapping(address, addressToIsValidatorSlot),
   AddressToStakedAmountIndex |->
     getAddressMapping(address, addressToStakedAmountSlot),
   AddressToValidatorIndexIndex |->
     getAddressMapping(address, addressToValidatorIndexSlot),
   StakedAmountIndex |-> Bytes(BigNewInt(stakedAmountSlot)),
   ValidatorsIndex |->
     getIndexWithOffset(
       Keccak256(PadLeftOrTrim(Bytes(BigNewInt(validatorsSlot)), 32)),
       index),
   ValidatorsArraySizeIndex |-> <<stakedAmountSlot % 256>>]

\* Faulty variant: the index mapping is looked up in the staked-amount slot.
getStorageIndexes_IndexInAmountSlot(address, index) ==
  [AddressToIsValidatorIndex |->
     getAddressMapping(address, addressToIsValidatorSlot),
   AddressToStakedAmountIndex |->
     getAddressMapping(address, addressToStakedAmountSlot),
   AddressToValidatorIndexIndex |->
     getAddressMapping(address, addressToStakedAmountSlot),
   StakedAmountIndex |-> Bytes(BigNewInt(stakedAmountSlot)),
   ValidatorsIndex |->
     getIndexWithOffset(
       Keccak256(PadLeftOrTrim(Bytes(BigNewInt(validatorsSlot)), 32)),
       index),
   ValidatorsArraySizeIndex |-> <<validatorsSlot % 256>>]

getStorageIndexes(address, index) ==
  [AddressToIsValidatorIndex |->
     getAddressMapping(address, addressToIsValidatorSlot),
   AddressToStakedAmountIndex |->
     getAddressMapping(address, addressToStakedAmountSlot),
   AddressToValidatorIndexIndex |->
     getAddressMapping(address, addressToValidatorIndexSlot),
   StakedAmountIndex |-> Bytes(BigNewInt(stakedAmountSlot)),
   ValidatorsIndex |->
     getIndexWithOffset(
       Keccak256(PadLeftOrTrim(Bytes(BigNewInt(validatorsSlot)), 32)),
       index),
   ValidatorsArraySizeIndex |-> <<validatorsSlot % 256>>]

---------------------------------------------------------------------------
(* Go maps: map[types.Hash]types.Hash.                                     *)

EmptyMap == [k \in {} |-> ZeroHash]

\* Faulty variant: a key that is in the map keeps its value.
MapSet_KeepFirst(m, k, v) ==
  [x \in (DOMAIN m) \cup {k} |-> IF x \in DOMAIN m THEN m[x] ELSE v]

\* m[k] = v
MapSet(m, k, v) == [x \in (DOMAIN m) \cup {k} |-> IF x = k THEN v ELSE m[x]]

\* m[k]: the zero value for a key that is not in the map.
MapGet(m, k) == IF k \in DOMAIN m THEN m[k] ELSE ZeroHash

---------------------------------------------------------------------------
(* Inputs.                                                                 *)

RECURSIVE ListsUpTo(_, _)
\* The sequences over S of length at most n.
ListsUpTo(S, n) ==
  IF n = 0 THEN {<<>>}
  ELSE LET shorter == ListsUpTo(S, n - 1)
       IN shorter \cup {Append(l, a) : l \in shorter, a \in S}

ValidatorLists == ListsUpTo(Addresses, MaxValidators)

MaxUint64 == [i \in 1..8 |-> 255]

TwoTo63 == <<128, 0, 0, 0, 0, 0, 0, 0>>

\* PredeployParams values.
ParamsSet ==
  {[MinValidatorCount |-> Uint64(1), MaxValidatorCount |-> Uint64(5)],
   [MinValidatorCount |-> Uint64(0), MaxValidatorCount |-> Uint64(0)],
   [MinValidatorCount |-> Uint64(5), MaxValidatorCount |-> Uint64(1)],
   [MinValidatorCount |-> TwoTo63, MaxValidatorCount |-> MaxUint64]}

\* common.MaxSafeJSInt = 2^53 - 1.
MaxSafeJSInt == <<0, 31, 255, 255, 255, 255, 255, 255>>

Big0 == BigNewInt(0)

NilAccount == [nil |-> TRUE, Code |-> <<>>, Balance |-> Big0, Storage |-> EmptyMap]

NoParams == [MinValidatorCount |-> Uint64(0), MaxValidatorCount |-> Uint64(0)]

NoReturn == [account |-> NilAccount, err |-> "none"]

---------------------------------------------------------------------------
(* The constants of the three copies of the package.  StakingSCBytecode    *)
(* is several thousand digits of opaque contract code; the model keeps     *)
(* its first 26 bytes, which tell the three copies apart.                  *)

Bytecode_staking ==
  <<"0","x","6","0","8","0","6","0","4","0","5","2","3","4","8","0","1","5",
    "6","2","0","0","0","0","1","1","5","7","6","0","0","0","8","0","f","d",
    "5","b","5","0","6","0","4","0","5","1","6","2","0","0","1","7","4","0">>

Bytecode_part_000 ==
  <<"0","x","6","0","8","0","6","0","4","0","5","2","3","4","8","0","1","5",
    "6","1","0","0","1","0","5","7","6","0","0","0","8","0","f","d","5","b",
    "5","0","6","0","0","4","3","6","1","0","6","1","0","1","3","7","5","7">>

Bytecode_part_001 ==
  <<"0","x","6","0","8","0","6","0","4","0","5","2","3","4","8","0","1","5",
    "6","1","0","0","1","0","5","7","6","0","0","0","8","0","f","d","5","b",
    "5","0","6","0","0","4","3","6","1","0","6","1","0","1","1","6","5","7">>

\* "0x8AC7230489E80000", 10 ETH
Balance_10ETH ==
  <<"0","x","8","A","C","7","2","3","0","4","8","9","E","8","0","0","0","0">>

\* "0xA", 10 Wei
Balance_10Wei == <<"0","x","A">>

\* staking.go, unnamed/part_000, unnamed/part_001
ContractVersions ==
  {[code |-> Bytecode_staking, balance |-> Balance_10ETH],
   [code |-> Bytecode_part_000, balance |-> Balance_10Wei],
   [code |-> Bytecode_part_001, balance |-> Balance_10ETH]}

\* Versions whose bundled constants are miswritten: a character that is no
\* hexadecimal digit, an odd number of digits, no digits at all.
MiswrittenVersions ==
  {[code |-> <<"0","x","6","0","8","0","z","z","4","0">>, balance |-> Balance_10ETH],
   [code |-> <<"0","x","6","0","8">>, balance |-> Balance_10Wei],
   [code |-> <<"6","0","8","0","0","x">>, balance |-> Balance_10Wei],
   [code |-> Bytecode_staking, balance |-> <<"0","x","8","A","C","7","G">>],
   [code |-> Bytecode_part_000, balance |-> <<"0","x">>],
   [code |-> Bytecode_part_001, balance |-> <<"1","0","e","1","8">>]}

---------------------------------------------------------------------------
(* Initial states.                                                         *)

InitPackage ==
  /\ MinValidatorCount = Uint64(1)
  /\ MaxValidatorCount = MaxSafeJSInt
  /\ validatorsSlot = 0
  /\ addressToIsValidatorSlot = 1
  /\ addressToStakedAmountSlot = 2
  /\ addressToValidatorIndexSlot = 3
  /\ stakedAmountSlot = 4
  /\ minNumValidatorSlot = 5
  /\ maxNumValidatorSlot = 6

InitInvocations ==
  /\ pc = [p \in Procs |-> "idle"]
  /\ validators = [p \in Procs |-> <<>>]
  /\ params = [p \in Procs |-> NoParams]
  /\ stakingAccount = [p \in Procs |-> NilAccount]
  /\ bigDefaultStakedBalance = [p \in Procs |-> Big0]
  /\ storageMap = [p \in Procs |-> EmptyMap]
  /\ bigTrueValue = [p \in Procs |-> Big0]
  /\ stakedAmount = [p \in Procs |-> Big0]
  /\ bigMinNumValidators = [p \in Procs |-> Big0]
  /\ bigMaxNumValidators = [p \in Procs |-> Big0]
  /\ indx = [p \in Procs |-> 0]
  /\ ret = [p \in Procs |-> NoReturn]
  /\ mappingCalls = <<>>
  /\ indexCalls = <<>>

Init ==
  /\ InitPackage
  /\ \E v \in ContractVersions :
       StakingSCBytecode = v.code /\ DefaultStakedBalance = v.balance
  /\ InitInvocations

InitMiswritten ==
  /\ InitPackage
  /\ \E v \in MiswrittenVersions :
       StakingSCBytecode = v.code /\ DefaultStakedBalance = v.balance
  /\ InitInvocations

---------------------------------------------------------------------------
(* PredeployStakingSC, one action per step.                                *)

\* The caller invokes PredeployStakingSC(vs, pr).
Call(p, vs, pr) ==
  /\ pc[p] \in {"idle", "done"}
  /\ pc' = [pc EXCEPT ![p] = "decode"]
  /\ validators' = [validators EXCEPT ![p] = vs]
  /\ params' = [params EXCEPT ![p] = pr]
  /\ stakingAccount' = [stakingAccount EXCEPT ![p] = NilAccount]
  /\ bigDefaultStakedBalance' = [bigDefaultStakedBalance EXCEPT ![p] = Big0]
  /\ storageMap' = [storageMap EXCEPT ![p] = EmptyMap]
  /\ bigTrueValue' = [bigTrueValue EXCEPT ![p] = Big0]
  /\ stakedAmount' = [stakedAmount EXCEPT ![p] = Big0]
  /\ bigMinNumValidators' = [bigMinNumValidators EXCEPT ![p] = Big0]
  /\ bigMaxNumValidators' = [bigMaxNumValidators EXCEPT ![p] = Big0]
  /\ indx' = [indx EXCEPT ![p] = 0]
  /\ ret' = [ret EXCEPT ![p] = NoReturn]
  /\ UNCHANGED <<pkgVars, callVars>>

\* scHex, _ := hex.DecodeHex(StakingSCBytecode); the account gets the code.
\* The error of DecodeHex is dropped.
DecodeBytecode(p) ==
  /\ pc[p] = "decode"
  /\ LET scHex == DecodeHex(StakingSCBytecode).bytes
     IN stakingAccount' = [stakingAccount EXCEPT
                             ![p] = [NilAccount EXCEPT !.nil = FALSE,
                                                       !.Code = scHex]]
  /\ pc' = [pc EXCEPT ![p] = "parse"]
  /\ UNCHANGED <<pkgVars, callVars, validators, params, bigDefaultStakedBalance,
                 storageMap, bigTrueValue, stakedAmount, bigMinNumValidators,
                 bigMaxNumValidators, indx, ret>>

\* types.ParseUint256orHex(&val); an error returns (nil, error).
ParseBalance(p) ==
  /\ pc[p] = "parse"
  /\ LET parsed == ParseUint256orHex(DefaultStakedBalance)
     IN IF parsed.err # "nil"
        THEN /\ ret' = [ret EXCEPT
                          ![p] = [account |-> NilAccount,
                                  err |-> "unable to generate DefaultStatkedBalance"]]
             /\ pc' = [pc EXCEPT ![p] = "done"]
             /\ UNCHANGED bigDefaultStakedBalance
        ELSE /\ bigDefaultStakedBalance' =
                  [bigDefaultStakedBalance EXCEPT ![p] = parsed.big]
             /\ pc' = [pc EXCEPT ![p] = "init"]
             /\ UNCHANGED ret
  /\ UNCHANGED <<pkgVars, callVars, validators, params, stakingAccount, storageMap,
                 bigTrueValue, stakedAmount, bigMinNumValidators,
                 bigMaxNumValidators, indx>>

\* Faulty variant: the minimum is the number of validators of the list.
InitLocals_MinIsCount(p) ==
  /\ pc[p] = "init"
  /\ storageMap' = [storageMap EXCEPT ![p] = EmptyMap]
  /\ bigTrueValue' = [bigTrueValue EXCEPT ![p] = BigNewInt(1)]
  /\ stakedAmount' = [stakedAmount EXCEPT ![p] = BigNewInt(0)]
  /\ bigMinNumValidators' =
       [bigMinNumValidators EXCEPT ![p] = BigNewInt(Len(validators[p]))]
  /\ bigMaxNumValidators' =
       [bigMaxNumValidators EXCEPT
          ![p] = BigNewIntOfUint64(params[p].MaxValidatorCount)]
  /\ indx' = [indx EXCEPT ![p] = 0]
  /\ pc' = [pc EXCEPT ![p] = "loop"]
  /\ UNCHANGED <<pkgVars, callVars, validators, params, stakingAccount,
                 bigDefaultStakedBalance, ret>>

\* Faulty variant: a zero parameter is replaced by the package-level default.
InitLocals_DefaultsApplied(p) ==
  /\ pc[p] = "init"
  /\ storageMap' = [storageMap EXCEPT ![p] = EmptyMap]
  /\ bigTrueValue' = [bigTrueValue EXCEPT ![p] = BigNewInt(1)]
  /\ stakedAmount' = [stakedAmount EXCEPT ![p] = BigNewInt(0)]
  /\ bigMinNumValidators' =
       [bigMinNumValidators EXCEPT
          ![p] = BigNewIntOfUint64(
                   IF params[p].MinValidatorCount = Uint64(0)
                   THEN MinValidatorCount
                   ELSE params[p].MinValidatorCount)]
  /\ bigMaxNumValidators' =
       [bigMaxNumValidators EXCEPT
          ![p] = BigNewIntOfUint64(
                   IF params[p].MaxValidatorCount = Uint64(0)
                   THEN MaxValidatorCount
                   ELSE params[p].MaxValidatorCount)]
  /\ indx' = [indx EXCEPT ![p] = 0]
  /\ pc' = [pc EXCEPT ![p] = "loop"]
  /\ UNCHANGED <<pkgVars, callVars, validators, params, stakingAccount,
                 bigDefaultStakedBalance, ret>>

\* Faulty variant: a list shorter than params.MinValidatorCount = 1 is rejected.
InitLocals_EmptyListRejected(p) ==
  /\ pc[p] = "init"
  /\ IF validators[p] = <<>>
     THEN /\ ret' = [ret EXCEPT
                       ![p] = [account |-> NilAccount,
                               err |-> "too few validators"]]
          /\ pc' = [pc EXCEPT ![p] = "done"]
          /\ UNCHANGED <<storageMap, bigTrueValue, stakedAmount,
                         bigMinNumValidators, bigMaxNumValidators, indx>>
     ELSE /\ storageMap' = [storageMap EXCEPT ![p] = EmptyMap]
          /\ bigTrueValue' = [bigTrueValue EXCEPT ![p] = BigNewInt(1)]
          /\ stakedAmount' = [stakedAmount EXCEPT ![p] = BigNewInt(0)]
          /\ bigMinNumValidators' =
               [bigMinNumValidators EXCEPT
                  ![p] = BigNewIntOfUint64(params[p].MinValidatorCount)]
          /\ bigMaxNumValidators' =
               [bigMaxNumValidators EXCEPT
                  ![p] = BigNewIntOfUint64(params[p].MaxValidatorCount)]
          /\ indx' = [indx EXCEPT ![p] = 0]
          /\ pc' = [pc EXCEPT ![p] = "loop"]
          /\ UNCHANGED ret
  /\ UNCHANGED <<pkgVars, callVars, validators, params, stakingAccount,
                 bigDefaultStakedBalance>>

\* The empty storage map and the big numbers of the loop.
InitLocals(p) ==
  /\ pc[p] = "init"
  /\ storageMap' = [storageMap EXCEPT ![p] = EmptyMap]
  /\ bigTrueValue' = [bigTrueValue EXCEPT ![p] = BigNewInt(1)]
  /\ stakedAmount' = [stakedAmount EXCEPT ![p] = BigNewInt(0)]
  /\ bigMinNumValidators' =
       [bigMinNumValidators EXCEPT
          ![p] = BigNewIntOfUint64(params[p].MinValidatorCount)]
  /\ bigMaxNumValidators' =
       [bigMaxNumValidators EXCEPT
          ![p] = BigNewIntOfUint64(params[p].MaxValidatorCount)]
  /\ indx' = [indx EXCEPT ![p] = 0]
  /\ pc' = [pc EXCEPT ![p] = "loop"]
  /\ UNCHANGED <<pkgVars, callVars, validators, params, stakingAccount,
                 bigDefaultStakedBalance, ret>>

\* Faulty variant: the address is left-aligned in the 32-byte word.
ValidatorsEntry_LeftAligned(storageIndexes, validator) ==
  [key |-> BytesToHash(storageIndexes.ValidatorsIndex),
   value |-> validator \o Zeros(32 - Len(validator))]

\* The six entries written by one iteration: key and value of each.
ValidatorsEntry(storageIndexes, validator) ==
  [key |-> BytesToHash(storageIndexes.ValidatorsIndex),
   value |-> BytesToHash(validator)]

\* Faulty variant: the is-validator entry holds the default staked balance of
\* the version.
IsValidatorEntry_DefaultStake(storageIndexes, true) ==
  [key |-> BytesToHash(storageIndexes.AddressToIsValidatorIndex),
   value |-> BytesToHash(Bytes(ParseUint256orHex(DefaultStakedBalance).big))]

IsValidatorEntry(storageIndexes, true) ==
  [key |-> BytesToHash(storageIndexes.AddressToIsValidatorIndex),
   value |-> BytesToHash(Bytes(true))]

\* Faulty variant: the staked amount of the address is the true value, 1.
StakedAmountByAddressEntry_True(storageIndexes, default) ==
  [key |-> BytesToHash(storageIndexes.AddressToStakedAmountIndex),
   value |-> BytesToHash(Bytes(BigNewInt(1)))]

StakedAmountByAddressEntry(storageIndexes, default) ==
  [key |-> BytesToHash(storageIndexes.AddressToStakedAmountIndex),
   value |-> StringToHash(EncodeBig(default))]

\* Faulty variant: the position written is always 0.
ValidatorIndexEntry_Zero(storageIndexes, i) ==
  [key |-> BytesToHash(storageIndexes.AddressToValidatorIndexIndex),
   value |-> StringToHash(EncodeUint64(Uint64(0)))]

\* Faulty variant: positions are counted from 1.
ValidatorIndexEntry_FromOne(storageIndexes, i) ==
  [key |-> BytesToHash(storageIndexes.AddressToValidatorIndexIndex),
   value |-> StringToHash(EncodeUint64(Uint64(i + 1)))]

ValidatorIndexEntry(storageIndexes, i) ==
  [key |-> BytesToHash(storageIndexes.AddressToValidatorIndexIndex),
   value |-> StringToHash(EncodeUint64(Uint64(i)))]

\* Faulty variant: the total is left-aligned in the 32-byte word.
StakedAmountEntry_LeftAligned(storageIndexes, total) ==
  [key |-> BytesToHash(storageIndexes.StakedAmountIndex),
   value |-> Bytes(total) \o Zeros(32 - Len(Bytes(total)))]

\* Faulty variant: the total is written under the staked-amount key of the address.
StakedAmountEntry_AddressKey(storageIndexes, total) ==
  [key |-> BytesToHash(storageIndexes.AddressToStakedAmountIndex),
   value |-> BytesToHash(Bytes(total))]

\* Faulty variant: the total is read from an accumulator that the invocations
\* share (the one of invocation 1).
StakedAmountEntry_Shared(storageIndexes, total) ==
  [key |-> BytesToHash(storageIndexes.StakedAmountIndex),
   value |-> BytesToHash(Bytes(stakedAmount[1]))]

StakedAmountEntry(storageIndexes, total) ==
  [key |-> BytesToHash(storageIndexes.StakedAmountIndex),
   value |-> BytesToHash(Bytes(total))]

\* Faulty variant: the size is the index, not the index plus one.
ArraySizeEntry_OffByOne(storageIndexes, i) ==
  [key |-> BytesToHash(storageIndexes.ValidatorsArraySizeIndex),
   value |-> StringToHash(EncodeUint64(Uint64(i)))]

ArraySizeEntry(storageIndexes, i) ==
  [key |-> BytesToHash(storageIndexes.ValidatorsArraySizeIndex),
   value |-> StringToHash(EncodeUint64(Uint64(i + 1)))]

\* storageMap[e.key] = e.value
Write(m, e) == MapSet(m, e.key, e.value)

\* Faulty variant: the is-validator entry is not written.
LoopWrites_NoIsValidator(m, validator, i, total, default, true) ==
  LET storageIndexes == getStorageIndexes(validator, i)
      m1 == Write(m, ValidatorsEntry(storageIndexes, validator))
      m3 == Write(m1, StakedAmountByAddressEntry(storageIndexes, default))
      m4 == Write(m3, ValidatorIndexEntry(storageIndexes, i))
      m5 == Write(m4, StakedAmountEntry(storageIndexes, total))
  IN Write(m5, ArraySizeEntry(storageIndexes, i))

\* The writes of one iteration, in the order of the code.
LoopWrites(m, validator, i, total, default, true) ==
  LET storageIndexes == getStorageIndexes(validator, i)
      m1 == Write(m, ValidatorsEntry(storageIndexes, validator))
      m2 == Write(m1, IsValidatorEntry(storageIndexes, true))
      m3 == Write(m2, StakedAmountByAddressEntry(storageIndexes, default))
      m4 == Write(m3, ValidatorIndexEntry(storageIndexes, i))
      m5 == Write(m4, StakedAmountEntry(storageIndexes, total))
  IN Write(m5, ArraySizeEntry(storageIndexes, i))

\* One iteration of: for indx, validator := range validators.
LoopIteration(p) ==
  /\ pc[p] = "loop"
  /\ indx[p] < Len(validators[p])
  /\ LET validator == validators[p][indx[p] + 1]
         total == BigAdd(stakedAmount[p], bigDefaultStakedBalance[p])
     IN /\ stakedAmount' = [stakedAmount EXCEPT ![p] = total]
        /\ storageMap' =
             [storageMap EXCEPT
                ![p] = LoopWrites(storageMap[p], validator, indx[p], total,
                                  bigDefaultStakedBalance[p], bigTrueValue[p])]
  /\ indx' = [indx EXCEPT ![p] = indx[p] + 1]
  /\ UNCHANGED <<pkgVars, callVars, pc, validators, params, stakingAccount,
                 bigDefaultStakedBalance, bigTrueValue, bigMinNumValidators,
                 bigMaxNumValidators, ret>>

\* Faulty variant: the minimum is addressed by the hash of its slot, as the
\* base of an array is.
MinMaxWrites_HashedKey(m, bigMin, bigMax) ==
  LET m1 == MapSet(m,
                   BytesToHash(
                     Keccak256(
                       PadLeftOrTrim(Bytes(BigNewInt(minNumValidatorSlot)),
                                     32))),
                   BytesToHash(Bytes(bigMin)))
  IN MapSet(m1, BytesToHash(Bytes(BigNewInt(maxNumValidatorSlot))),
            BytesToHash(Bytes(bigMax)))

\* Faulty variant: the maximum is written under the slot of the minimum.
MinMaxWrites_SameSlot(m, bigMin, bigMax) ==
  LET m1 == MapSet(m, BytesToHash(Bytes(BigNewInt(minNumValidatorSlot))),
                   BytesToHash(Bytes(bigMin)))
  IN MapSet(m1, BytesToHash(Bytes(BigNewInt(minNumValidatorSlot))),
            BytesToHash(Bytes(bigMax)))

\* After the loop: the minimum and maximum number of validators.
MinMaxWrites(m, bigMin, bigMax) ==
  LET m1 == MapSet(m, BytesToHash(Bytes(BigNewInt(minNumValidatorSlot))),
                   BytesToHash(Bytes(bigMin)))
  IN MapSet(m1, BytesToHash(Bytes(BigNewInt(maxNumValidatorSlot))),
            BytesToHash(Bytes(bigMax)))

\* Faulty variant: the elements of the input list are overwritten after the loop.
SetMinMax_OverwritesInput(p) ==
  /\ pc[p] = "loop"
  /\ indx[p] >= Len(validators[p])
  /\ storageMap' =
       [storageMap EXCEPT
          ![p] = MinMaxWrites(storageMap[p], bigMinNumValidators[p],
                              bigMaxNumValidators[p])]
  /\ validators' =
       [validators EXCEPT ![p] = [i \in 1..Len(validators[p]) |-> Zeros(20)]]
  /\ pc' = [pc EXCEPT ![p] = "save"]
  /\ UNCHANGED <<pkgVars, callVars, params, stakingAccount,
                 bigDefaultStakedBalance, bigTrueValue, stakedAmount,
                 bigMinNumValidators, bigMaxNumValidators, indx, ret>>

SetMinMax(p) ==
  /\ pc[p] = "loop"
  /\ indx[p] >= Len(validators[p])
  /\ storageMap' =
       [storageMap EXCEPT
          ![p] = MinMaxWrites(storageMap[p], bigMinNumValidators[p],
                              bigMaxNumValidators[p])]
  /\ pc' = [pc EXCEPT ![p] = "save"]
  /\ UNCHANGED <<pkgVars, callVars, validators, params, stakingAccount,
                 bigDefaultStakedBalance, bigTrueValue, stakedAmount,
                 bigMinNumValidators, bigMaxNumValidators, indx, ret>>

\* Faulty variant: the balance is the default staked balance, not the total.
Return_DefaultBalance(p) ==
  /\ pc[p] = "save"
  /\ LET account == [stakingAccount[p] EXCEPT
                       !.Storage = storageMap[p],
                       !.Balance = bigDefaultStakedBalance[p]]
     IN /\ stakingAccount' = [stakingAccount EXCEPT ![p] = account]
        /\ ret' = [ret EXCEPT ![p] = [account |-> account, err |-> "nil"]]
  /\ pc' = [pc EXCEPT ![p] = "done"]
  /\ UNCHANGED <<pkgVars, callVars, validators, params, bigDefaultStakedBalance,
                 storageMap, bigTrueValue, stakedAmount, bigMinNumValidators,
                 bigMaxNumValidators, indx>>

\* Faulty variant: the storage map is one map that the invocations share
\* (the one of invocation 1).
Return_SharedMap(p) ==
  /\ pc[p] = "save"
  /\ LET account == [stakingAccount[p] EXCEPT !.Storage = storageMap[1],
                                              !.Balance = stakedAmount[p]]
     IN /\ stakingAccount' = [stakingAccount EXCEPT ![p] = account]
        /\ ret' = [ret EXCEPT ![p] = [account |-> account, err |-> "nil"]]
  /\ pc' = [pc EXCEPT ![p] = "done"]
  /\ UNCHANGED <<pkgVars, callVars, validators, params, bigDefaultStakedBalance,
                 storageMap, bigTrueValue, stakedAmount, bigMinNumValidators,
                 bigMaxNumValidators, indx>>

\* The storage map and the balance are saved and the account is returned.
Return(p) ==
  /\ pc[p] = "save"
  /\ LET account == [stakingAccount[p] EXCEPT !.Storage = storageMap[p],
                                              !.Balance = stakedAmount[p]]
     IN /\ stakingAccount' = [stakingAccount EXCEPT ![p] = account]
        /\ ret' = [ret EXCEPT ![p] = [account |-> account, err |-> "nil"]]
  /\ pc' = [pc EXCEPT ![p] = "done"]
  /\ UNCHANGED <<pkgVars, callVars, validators, params, bigDefaultStakedBalance,
                 storageMap, bigTrueValue, stakedAmount, bigMinNumValidators,
                 bigMaxNumValidators, indx>>

PredeployStakingSC(p) ==
  \/ DecodeBytecode(p)
  \/ ParseBalance(p)
  \/ InitLocals(p)
  \/ LoopIteration(p)
  \/ SetMinMax(p)
  \/ Return(p)

\* One caller.
Next ==
  \/ \E vs \in ValidatorLists, pr \in ParamsSet : Call(1, vs, pr)
  \/ PredeployStakingSC(1)

Spec == Init /\ [][Next]_vars

\* The same program built from a version with miswritten constants.
SpecMiswritten == InitMiswritten /\ [][Next]_vars

---------------------------------------------------------------------------
(* Two callers, their invocations interleaved step by step.                *)

\* Longest validator list of an invocation in SpecPair.
MaxPairValidators == 2

PairLists == ListsUpTo({AddrA, AddrB}, MaxPairValidators)

PairParams ==
  {[MinValidatorCount |-> Uint64(1), MaxValidatorCount |-> Uint64(5)],
   [MinValidatorCount |-> Uint64(5), MaxValidatorCount |-> Uint64(1)]}

NextPair ==
  \/ \E p \in Procs, vs \in PairLists, pr \in PairParams : Call(p, vs, pr)
  \/ \E p \in Procs : PredeployStakingSC(p)

SpecPair == Init /\ [][NextPair]_vars

---------------------------------------------------------------------------
(* PredeployStakingSC run from its first line to its return with no step   *)
(* of another invocation in between.                                       *)

RECURSIVE LoopAlone(_, _, _)
\* The storage map and the total after the first k iterations of the loop.
LoopAlone(vs, default, k) ==
  IF k = 0 THEN [storageMap |-> EmptyMap, stakedAmount |-> BigNewInt(0)]
  ELSE LET before == LoopAlone(vs, default, k - 1)
           total == BigAdd(before.stakedAmount, default)
       IN [storageMap |-> LoopWrites(before.storageMap, vs[k], k - 1, total,
                                     default, BigNewInt(1)),
           stakedAmount |-> total]

\* What PredeployStakingSC(vs, pr) returns.
PredeployAlone(vs, pr) ==
  LET scHex == DecodeHex(StakingSCBytecode).bytes
      parsed == ParseUint256orHex(DefaultStakedBalance)
      loop == LoopAlone(vs, parsed.big, Len(vs))
  IN IF parsed.err # "nil"
     THEN [account |-> NilAccount,
           err |-> "unable to generate DefaultStatkedBalance"]
     ELSE [account |->
             [nil |-> FALSE,
              Code |-> scHex,
              Balance |-> loop.stakedAmount,
              Storage |->
                MinMaxWrites(loop.storageMap,
                             BigNewIntOfUint64(pr.MinValidatorCount),
                             BigNewIntOfUint64(pr.MaxValidatorCount))],
           err |-> "nil"]

---------------------------------------------------------------------------
(* getAddressMapping and getStorageIndexes called on their own.            *)

\* The last two of a sequence of calls.
LastTwo(calls) ==
  IF Len(calls) > 2 THEN Suffix(calls, Len(calls) - 1) ELSE calls

\* A call getAddressMapping(a, slot).
GetAddressMapping(a, slot) ==
  /\ mappingCalls' =
       LastTwo(Append(mappingCalls,
                      [address |-> a, slot |-> slot,
                       key |-> getAddressMapping(a, slot)]))
  /\ UNCHANGED <<pkgVars, pc, validators, params, localVars, ret, indexCalls>>

NextMapping == \E a \in Addresses, slot \in 0..4 : GetAddressMapping(a, slot)

SpecMapping == Init /\ [][NextMapping]_vars

\* Largest of the consecutive indexes getStorageIndexes is called with.
MaxIndex == 5

\* Indexes from 0, and indexes around those where adding to the array base
\* 0x29..f3e563 carries into its second, third and fourth last byte.
IndexValues ==
  (0..MaxIndex) \cup {156, 157, 256, 6812, 6813, 792220, 792221, 2147483647}

\* A call getStorageIndexes(a, index).
GetStorageIndexes(a, index) ==
  /\ indexCalls' =
       LastTwo(Append(indexCalls,
                      [address |-> a, index |-> index,
                       storageIndexes |-> getStorageIndexes(a, index)]))
  /\ UNCHANGED <<pkgVars, pc, validators, params, localVars, ret, mappingCalls>>

NextIndexes ==
  \E a \in Addresses, index \in IndexValues : GetStorageIndexes(a, index)

SpecIndexes == Init /\ [][NextIndexes]_vars

---------------------------------------------------------------------------
(* Vocabulary of the properties.                                           *)

\* Invocation p has returned an account and no error.
Returned(p) == pc[p] = "done" /\ ret[p].err = "nil"

Account(p) == ret[p].account

\* No address occurs twice in vs.
Distinct(vs) == \A i, j \in 1..Len(vs) : i # j => vs[i] # vs[j]

\* The default stake of the version: 10^19 or 10.
DefaultStake ==
  IF DefaultStakedBalance = Balance_10ETH
  THEN <<138, 199, 35, 4, 137, 232, 0, 0>>
  ELSE <<10>>

\* A number below 256, a magnitude and an address as 32-byte words.
Word(n) == [i \in 1..32 |-> IF i = 32 THEN n ELSE 0]

MagnitudeWord(b) == [i \in 1..32 |-> IF i > 32 - Len(b) THEN b[i - 32 + Len(b)] ELSE 0]

AddressWord(a) == [i \in 1..32 |-> IF i > 12 THEN a[i - 12] ELSE 0]

\* The key of a scalar or of the array length: the slot number.
SlotKey(slot) == Word(slot)

\* The key of a mapping entry: keccak(address word . slot word).
MappingKey(a, slot) == Keccak256(AddressWord(a) \o Word(slot))

\* keccak(slot word 0) = 0x290d...e563, where the validators array starts.
ArrayBase ==
  <<41,13,236,217,84,139,98,168,214,3,69,169,136,56,111,200,
    75,166,188,149,72,64,8,246,54,47,147,22,14,243,229,99>>

\* The key of array element i (i < 100): the base plus i.
ArrayKey(i) == [ArrayBase EXCEPT ![32] = @ + i]

\* The keys of each kind that can occur in a map.
ArrayKeys == {ArrayKey(i) : i \in 0..(MaxValidators + 1)}

IsValidatorKeys == {MappingKey(a, 1) : a \in Addresses}

StakedAmountKeys == {MappingKey(a, 2) : a \in Addresses}

IndexKeys == {MappingKey(a, 3) : a \in Addresses}

\* The entries of a map as a set of pairs.
Entries(m) == {<<k, m[k]>> : k \in DOMAIN m}

\* The addresses of a list, and the last position (from 0) of one of them.
Range(vs) == {vs[i] : i \in 1..Len(vs)}

LastPosition(vs, a) ==
  (CHOOSE i \in 1..Len(vs) :
     vs[i] = a /\ \A j \in (i + 1)..Len(vs) : vs[j] # a) - 1

\* N times the default stake.
StakeOf(n) == [neg |-> FALSE, abs |-> MulSmall(DefaultStake, n)]

OneFive == [MinValidatorCount |-> Uint64(1), MaxValidatorCount |-> Uint64(5)]

---------------------------------------------------------------------------
(* Properties.                                                             *)

\* C1, as stated: for every list of N >= 0 validators with pairwise
\* distinct addresses the returned storage map has exactly 4N+4 entries.
\* The empty list refutes it: its map holds the min and max entries only.
C1_EntryCountEveryN ==
  \A p \in Procs :
    Returned(p) /\ Distinct(validators[p])
      => Cardinality(DOMAIN Account(p).Storage) = 4 * Len(validators[p]) + 4

\* C1, amended: for every list of N >= 1 validators with pairwise distinct
\* addresses the returned storage map has exactly 4N+4 entries; for the
\* empty list it has exactly 2.
C1_EntryCount ==
  \A p \in Procs :
    Returned(p) /\ Distinct(validators[p])
      => Cardinality(DOMAIN Account(p).Storage) =
           IF validators[p] = <<>> THEN 2 ELSE 4 * Len(validators[p]) + 4

C1_Witness ==
  /\ Returned(1)
  /\ validators[1] = <<AddrC, AddrA, AddrB>>
  /\ Cardinality(DOMAIN Account(1).Storage) = 16

\* C2: for every list of N validators, repeated addresses included, the
\* balance of the returned account is N times the default staked balance.
C2_Balance ==
  \A p \in Procs :
    Returned(p) => Account(p).Balance = StakeOf(Len(validators[p]))

C2_Witness ==
  /\ Returned(1)
  /\ validators[1] = <<AddrB, AddrB, AddrA>>
  /\ Account(1).Balance.abs = MulSmall(DefaultStake, 3)
  /\ DefaultStakedBalance = Balance_10ETH

\* C3: for every list of N validators, reading the returned map at the
\* validators-array length key (slot 0) gives N; a key that is not in the
\* map reads as zero, which is the case of the empty list.
C3_ArrayLength ==
  \A p \in Procs :
    Returned(p)
      => MapGet(Account(p).Storage, SlotKey(0)) = Word(Len(validators[p]))

C3_Witness ==
  /\ Returned(1)
  /\ Len(validators[1]) = 3
  /\ SlotKey(0) \in DOMAIN Account(1).Storage
  /\ Account(1).Storage[SlotKey(0)] = Word(3)

\* C4: for the empty list the returned map holds exactly the two entries
\* of the min and max keys (slots 5 and 6), the array length reads 0 and
\* the balance is 0.
C4_EmptyList ==
  \A p \in Procs :
    Returned(p) /\ validators[p] = <<>>
      => /\ DOMAIN Account(p).Storage = {SlotKey(5), SlotKey(6)}
         /\ MapGet(Account(p).Storage, SlotKey(0)) = Word(0)
         /\ Account(p).Balance = [neg |-> FALSE, abs |-> <<>>]

C4_Witness ==
  /\ Returned(1)
  /\ validators[1] = <<>>
  /\ params[1] = OneFive
  /\ Account(1).Storage[SlotKey(5)] = Word(1)
  /\ Account(1).Storage[SlotKey(6)] = Word(5)

\* C5: for a single validator A and params min = 1, max = 5 the returned
\* map is exactly the 8 entries array element 0 -> A, is-validator(A) -> 1,
\* staked-amount(A) -> D, index(A) -> 0, key 4 -> D, key 0 -> 1, key 5 -> 1,
\* key 6 -> 5, and the balance is D, the default staked balance.
C5_SingleValidator ==
  \A p \in Procs :
    Returned(p) /\ Len(validators[p]) = 1 /\ params[p] = OneFive
      => LET A == validators[p][1]
             D == MagnitudeWord(DefaultStake)
         IN /\ Entries(Account(p).Storage) =
                 {<<ArrayKey(0), AddressWord(A)>>,
                  <<MappingKey(A, 1), Word(1)>>,
                  <<MappingKey(A, 2), D>>,
                  <<MappingKey(A, 3), Word(0)>>,
                  <<SlotKey(4), D>>,
                  <<SlotKey(0), Word(1)>>,
                  <<SlotKey(5), Word(1)>>,
                  <<SlotKey(6), Word(5)>>}
            /\ Cardinality(DOMAIN Account(p).Storage) = 8
            /\ Account(p).Balance = [neg |-> FALSE, abs |-> DefaultStake]

C5_Witness ==
  /\ Returned(1)
  /\ validators[1] = <<AddrA>>
  /\ params[1] = OneFive
  /\ DefaultStakedBalance = Balance_10Wei
  /\ Account(1).Storage[MappingKey(AddrA, 2)] = Word(10)

\* C6: for the list [A, A] the returned map holds two distinct
\* array-element entries (positions 0 and 1), both A, exactly one
\* is-validator entry (1) and exactly one staked-amount-by-address entry
\* (D), both of A, and the balance is 2 D.
C6_SameAddressTwice ==
  \A p \in Procs :
    Returned(p) /\ Len(validators[p]) = 2
                /\ validators[p][1] = validators[p][2]
      => LET A == validators[p][1]
             m == Account(p).Storage
         IN /\ ArrayKey(0) # ArrayKey(1)
            /\ (DOMAIN m) \cap ArrayKeys = {ArrayKey(0), ArrayKey(1)}
            /\ m[ArrayKey(0)] = AddressWord(A)
            /\ m[ArrayKey(1)] = AddressWord(A)
            /\ (DOMAIN m) \cap IsValidatorKeys = {MappingKey(A, 1)}
            /\ m[MappingKey(A, 1)] = Word(1)
            /\ (DOMAIN m) \cap StakedAmountKeys = {MappingKey(A, 2)}
            /\ m[MappingKey(A, 2)] = MagnitudeWord(DefaultStake)
            /\ Account(p).Balance = StakeOf(2)

C6_Witness ==
  /\ Returned(1)
  /\ validators[1] = <<AddrB, AddrB>>
  /\ Account(1).Storage[ArrayKey(1)] = AddressWord(AddrB)

\* C7, as stated: when an address occurs more than once, the final map
\* holds one array-element entry and one index-by-address entry per
\* occurrence, at distinct keys, one is-validator and one staked-amount
\* entry per address, and the balance counts the stake per occurrence.
\* The index-by-address key depends on the address alone, so the
\* occurrences of an address share one entry.
C7_EntryPerOccurrence ==
  \A p \in Procs :
    Returned(p) /\ ~Distinct(validators[p])
      => LET vs == validators[p]
             m == Account(p).Storage
         IN /\ Cardinality((DOMAIN m) \cap ArrayKeys) = Len(vs)
            /\ Cardinality((DOMAIN m) \cap IndexKeys) = Len(vs)
            /\ Cardinality((DOMAIN m) \cap IsValidatorKeys)
                 = Cardinality(Range(vs))
            /\ Cardinality((DOMAIN m) \cap StakedAmountKeys)
                 = Cardinality(Range(vs))
            /\ Account(p).Balance = StakeOf(Len(vs))

\* C7, amended: when an address occurs more than once, each occurrence
\* still has its own array-element entry, while the index-by-address
\* entry, like the is-validator and staked-amount-by-address entries, is
\* one entry per address, overwritten by the later occurrence (it holds
\* the position of the last one), and the balance and the staked total
\* count the stake once per occurrence.
C7_DuplicateAddresses ==
  \A p \in Procs :
    Returned(p) /\ ~Distinct(validators[p])
      => LET vs == validators[p]
             m == Account(p).Storage
         IN /\ (DOMAIN m) \cap ArrayKeys = {ArrayKey(i - 1) : i \in 1..Len(vs)}
            /\ \A i \in 1..Len(vs) : m[ArrayKey(i - 1)] = AddressWord(vs[i])
            /\ (DOMAIN m) \cap IndexKeys = {MappingKey(a, 3) : a \in Range(vs)}
            /\ (DOMAIN m) \cap IsValidatorKeys
                 = {MappingKey(a, 1) : a \in Range(vs)}
            /\ (DOMAIN m) \cap StakedAmountKeys
                 = {MappingKey(a, 2) : a \in Range(vs)}
            /\ \A a \in Range(vs) :
                 /\ m[MappingKey(a, 3)] = Word(LastPosition(vs, a))
                 /\ m[MappingKey(a, 1)] = Word(1)
                 /\ m[MappingKey(a, 2)] = MagnitudeWord(DefaultStake)
            /\ Account(p).Balance = StakeOf(Len(vs))
            /\ m[SlotKey(4)] = MagnitudeWord(StakeOf(Len(vs)).abs)

C7_Witness ==
  /\ Returned(1)
  /\ validators[1] = <<AddrA, AddrB, AddrA>>
  /\ Account(1).Storage[MappingKey(AddrA, 3)] = Word(2)
  /\ Cardinality((DOMAIN Account(1).Storage) \cap IndexKeys) = 2

\* The number of occurrences of a in vs, and lists that are permutations
\* of each other.
Count(vs, a) == Cardinality({i \in 1..Len(vs) : vs[i] = a})

IsPermutation(vs, ws) ==
  Len(vs) = Len(ws) /\ \A a \in Addresses : Count(vs, a) = Count(ws, a)

\* C8: two invocations on lists that are permutations of each other, with
\* the same params, return accounts with the same keys, the same
\* is-validator, staked-amount-by-address, staked-total, array-length, min
\* and max entries, the same balance and the same code; only the values of
\* the array-element and index-by-address entries may differ.
C8_Permutation ==
  (/\ Returned(1) /\ Returned(2)
   /\ IsPermutation(validators[1], validators[2])
   /\ params[1] = params[2])
    => LET m1 == Account(1).Storage
           m2 == Account(2).Storage
       IN /\ DOMAIN m1 = DOMAIN m2
          /\ \A k \in (DOMAIN m1) \ (ArrayKeys \cup IndexKeys) : m1[k] = m2[k]
          /\ Account(1).Balance = Account(2).Balance
          /\ Account(1).Code = Account(2).Code

C8_Witness ==
  /\ Returned(1) /\ Returned(2)
  /\ validators[1] = <<AddrA, AddrB>>
  /\ validators[2] = <<AddrB, AddrA>>
  /\ params[1] = params[2]
  /\ Account(1).Storage[MappingKey(AddrA, 3)] = Word(0)
  /\ Account(2).Storage[MappingKey(AddrA, 3)] = Word(1)
  /\ Account(1).Storage[MappingKey(AddrA, 2)]
       = Account(2).Storage[MappingKey(AddrA, 2)]

\* C9: two invocations with the same validator list and the same params
\* return the same code, the same balance and the same storage map,
\* however their steps interleave.
C9_Deterministic ==
  (/\ pc[1] = "done" /\ pc[2] = "done"
   /\ validators[1] = validators[2]
   /\ params[1] = params[2])
    => /\ ret[1].err = ret[2].err
       /\ Account(1).Code = Account(2).Code
       /\ Account(1).Balance = Account(2).Balance
       /\ Entries(Account(1).Storage) = Entries(Account(2).Storage)

C9_Witness ==
  /\ Returned(1) /\ Returned(2)
  /\ validators[1] = <<AddrA, AddrB>>
  /\ validators[2] = <<AddrA, AddrB>>
  /\ params[1] = OneFive /\ params[2] = OneFive
  /\ Cardinality(DOMAIN Account(2).Storage) = 12

\* C10: if the bytecode constant is malformed hex, the invocation computes
\* no storage entry and returns no account but an error.  The code drops
\* the error of DecodeHex, goes on and returns an account.
C10_MalformedBytecodeError ==
  \A p \in Procs :
    DecodeHex(StakingSCBytecode).err # "nil"
      => /\ storageMap[p] = EmptyMap
         /\ pc[p] = "done" => (ret[p].account.nil /\ ret[p].err # "nil")

\* The balance literal is none of the literals of the three versions.
BalanceMiswritten == DefaultStakedBalance \notin {Balance_10ETH, Balance_10Wei}

\* C11: if DefaultStakedBalance does not parse, the invocation returns a
\* nil account and a non-nil error, and it does so before any storage
\* entry is written: its map stays empty and its total stays zero.
C11_BalanceParseError ==
  \A p \in Procs :
    BalanceMiswritten
      => /\ storageMap[p] = EmptyMap
         /\ stakedAmount[p] = Big0
         /\ pc[p] \notin {"init", "loop", "save"}
         /\ pc[p] = "done"
              => /\ ret[p].account = NilAccount
                 /\ ret[p].err = "unable to generate DefaultStatkedBalance"

C11_Witness ==
  /\ DefaultStakedBalance = <<"1", "0", "e", "1", "8">>
  /\ pc[1] = "done"
  /\ validators[1] = <<AddrA, AddrB>>
  /\ ret[1].account.nil
  /\ ret[1].err # "nil"
  /\ storageMap[1] = EmptyMap

\* C12: for every uint64 value of params.MinValidatorCount and
\* params.MaxValidatorCount, those of 2^63 and above included, the values
\* under keys 5 and 6 of the returned map, read as unsigned big-endian
\* integers, are exactly MinValidatorCount and MaxValidatorCount.  The
\* code converts through int64: 2^64 - 1 becomes -1 and its magnitude 1 is
\* stored.
C12_MinMaxEveryUint64 ==
  \A p \in Procs :
    Returned(p)
      => /\ SlotKey(5) \in DOMAIN Account(p).Storage
         /\ SlotKey(6) \in DOMAIN Account(p).Storage
         /\ Account(p).Storage[SlotKey(5)] =
              MagnitudeWord(params[p].MinValidatorCount)
         /\ Account(p).Storage[SlotKey(6)] =
              MagnitudeWord(params[p].MaxValidatorCount)

FiveOne == [MinValidatorCount |-> Uint64(5), MaxValidatorCount |-> Uint64(1)]

\* C13: with the constants of the three versions every invocation, for
\* every validator list and every params, returns a non-nil account and a
\* nil error, and no step of it can return anything else: nothing is
\* validated, so min above max, a count below the minimum or above the
\* maximum and repeated addresses all succeed.
C13_AlwaysSucceeds ==
  \A p \in Procs :
    /\ pc[p] = "done" => (~ret[p].account.nil /\ ret[p].err = "nil")
    /\ pc[p] # "done" => ret[p] = NoReturn

C13_Witness ==
  /\ Returned(1)
  /\ ~Account(1).nil
  /\ params[1] = FiveOne
  /\ validators[1] = <<AddrA, AddrA, AddrB>>

\* The calls held in a sequence of calls.
Calls(calls) == {calls[n] : n \in 1..Len(calls)}

\* C14: for the validators slot and distinct indexes i # j the
\* array-element keys that getStorageIndexes returns are different, as
\* returned and as the 32-byte keys they are written under.
C14_ArrayKeysDistinct ==
  \A c, d \in Calls(indexCalls) :
    c.index # d.index
      => /\ c.storageIndexes.ValidatorsIndex # d.storageIndexes.ValidatorsIndex
         /\ BytesToHash(c.storageIndexes.ValidatorsIndex)
              # BytesToHash(d.storageIndexes.ValidatorsIndex)

C14_Witness ==
  /\ Len(indexCalls) = 2
  /\ indexCalls[1].index = 0
  /\ indexCalls[2].index = 256
  /\ indexCalls[1].storageIndexes.ValidatorsIndex = ArrayBase
  /\ indexCalls[2].storageIndexes.ValidatorsIndex
       = [ArrayBase EXCEPT ![31] = @ + 1]

\* C15: getAddressMapping is deterministic and injective over the pairs
\* (address, slot): two calls return the same key if and only if both the
\* address and the slot are the same, so the keys of one address in
\* different slots differ and the keys of different addresses never
\* coincide.
C15_MappingInjective ==
  \A c, d \in Calls(mappingCalls) :
    (c.key = d.key) <=> (c.address = d.address /\ c.slot = d.slot)

C15_Witness ==
  /\ Len(mappingCalls) = 2
  /\ mappingCalls[1].address = AddrA /\ mappingCalls[1].slot = 1
  /\ mappingCalls[2].address = AddrA /\ mappingCalls[2].slot = 3
  /\ mappingCalls[1].key = MappingKey(AddrA, 1)
  /\ mappingCalls[2].key = MappingKey(AddrA, 3)
  /\ mappingCalls[1].key # mappingCalls[2].key

\* C16: invocations are independent.  When two invocations run at the same
\* time, their steps interleaved in any order, each returns exactly what
\* it returns when it runs alone: the result depends on its own arguments
\* and on the package-level values only.
C16_Independent ==
  \A p \in Procs :
    pc[p] = "done" => ret[p] = PredeployAlone(validators[p], params[p])

C16_Witness ==
  /\ Returned(1)
  /\ pc[2] = "loop" /\ indx[2] = 1
  /\ validators[1] = <<AddrA, AddrB>> /\ params[1] = OneFive
  /\ validators[2] = <<AddrB, AddrB>> /\ params[2] = FiveOne
  /\ Account(1).Storage[MappingKey(AddrB, 3)] = Word(1)
  /\ storageMap[2][MappingKey(AddrB, 3)] = Word(0)

\* C17: an invocation has no effect beyond its return value.  No step
\* changes a package-level slot variable, MinValidatorCount,
\* MaxValidatorCount or a constant; no step of a running invocation
\* changes its input list or its params; the storage map and the total of
\* an invocation start empty and zero, and no step of one invocation
\* changes the map, the total or the result of another.
C17_NoSideEffect ==
  [][/\ pkgVars' = pkgVars
     /\ \A p \in Procs :
          /\ pc[p] \notin {"idle", "done"}
               => validators'[p] = validators[p] /\ params'[p] = params[p]
          /\ (pc[p] = "init" /\ pc'[p] = "loop")
               => storageMap'[p] = EmptyMap /\ stakedAmount'[p] = Big0
          /\ pc'[p] = pc[p] /\ indx'[p] = indx[p]
               => /\ storageMap'[p] = storageMap[p]
                  /\ stakedAmount'[p] = stakedAmount[p]
                  /\ ret'[p] = ret[p]]_vars

C17_Witness ==
  /\ Returned(1) /\ Returned(2)
  /\ validators[1] = <<AddrA, AddrB>>
  /\ validators[2] = <<AddrB>>
  /\ Account(1).Storage # Account(2).Storage
  /\ Account(1).Balance # Account(2).Balance
  /\ validatorsSlot = 0 /\ addressToIsValidatorSlot = 1
  /\ addressToStakedAmountSlot = 2 /\ addressToValidatorIndexSlot = 3
  /\ stakedAmountSlot = 4 /\ minNumValidatorSlot = 5
  /\ maxNumValidatorSlot = 6
  /\ MinValidatorCount = Uint64(1) /\ MaxValidatorCount = MaxSafeJSInt

\* C18: validators are processed in input order.  For every position i of
\* the list the returned map holds, under the array-element key of i, the
\* address validators[i] right-aligned in 32 bytes, and it holds no
\* array-element entry of a position N or above.
C18_ArrayInInputOrder ==
  \A p \in Procs :
    Returned(p)
      => LET vs == validators[p]
             m == Account(p).Storage
         IN /\ \A i \in 1..Len(vs) :
                 /\ ArrayKey(i - 1) \in DOMAIN m
                 /\ m[ArrayKey(i - 1)] = AddressWord(vs[i])
            /\ \A k \in ArrayKeys :
                 k \in DOMAIN m => \E i \in 1..Len(vs) : k = ArrayKey(i - 1)

C18_Witness ==
  /\ Returned(1)
  /\ validators[1] = <<AddrC, AddrA>>
  /\ Account(1).Storage[ArrayKey(0)] = AddressWord(AddrC)
  /\ Account(1).Storage[ArrayKey(1)] = AddressWord(AddrA)
  /\ ArrayKey(2) \notin DOMAIN Account(1).Storage

\* C19: for a list of pairwise distinct addresses and every position i the
\* returned map holds, for validators[i], 1 under its is-validator key
\* (slot 1), the default staked balance under its staked-amount key
\* (slot 2) and i under its index key (slot 3).
C19_EntriesOfAddress ==
  \A p \in Procs :
    Returned(p) /\ Distinct(validators[p])
      => LET vs == validators[p]
             m == Account(p).Storage
         IN \A i \in 1..Len(vs) :
              /\ {MappingKey(vs[i], 1), MappingKey(vs[i], 2),
                  MappingKey(vs[i], 3)} \subseteq DOMAIN m
              /\ m[MappingKey(vs[i], 1)] = Word(1)
              /\ m[MappingKey(vs[i], 2)] = MagnitudeWord(DefaultStake)
              /\ m[MappingKey(vs[i], 3)] = Word(i - 1)

C19_Witness ==
  /\ Returned(1)
  /\ validators[1] = <<AddrB, AddrC, AddrA>>
  /\ DefaultStakedBalance = Balance_10ETH
  /\ Account(1).Storage[MappingKey(AddrA, 1)] = Word(1)
  /\ Account(1).Storage[MappingKey(AddrA, 2)]
       = MagnitudeWord(<<138, 199, 35, 4, 137, 232, 0, 0>>)
  /\ Account(1).Storage[MappingKey(AddrA, 3)] = Word(2)
  /\ Account(1).Storage[MappingKey(AddrB, 3)] = Word(0)

\* The addresses among the first k of a list.
Seen(vs, k) == {vs[i] : i \in 1..k}

\* C20: the loop invariant of the two running values.  After the iteration
\* of position i is complete, key 4 holds (i+1) times the default staked
\* balance and key 0 holds i+1; each is rewritten under its one key and
\* never under a second one, so the map has one entry per position, three
\* per address seen and these two; after the last iteration the returned
\* map holds N times the default staked balance and N.
C20_LoopInvariant ==
  \A p \in Procs :
    /\ (pc[p] = "loop" /\ indx[p] >= 1)
         => LET m == storageMap[p]
                k == indx[p]
            IN /\ SlotKey(4) \in DOMAIN m /\ SlotKey(0) \in DOMAIN m
               /\ m[SlotKey(4)] = MagnitudeWord(StakeOf(k).abs)
               /\ m[SlotKey(0)] = Word(k)
               /\ Cardinality(DOMAIN m)
                    = k + 3 * Cardinality(Seen(validators[p], k)) + 2
    /\ (Returned(p) /\ validators[p] # <<>>)
         => LET m == Account(p).Storage
                N == Len(validators[p])
            IN /\ SlotKey(4) \in DOMAIN m /\ SlotKey(0) \in DOMAIN m
               /\ m[SlotKey(4)] = MagnitudeWord(StakeOf(N).abs)
               /\ m[SlotKey(0)] = Word(N)
               /\ Cardinality(DOMAIN m)
                    = N + 3 * Cardinality(Seen(validators[p], N)) + 4

C20_Witness ==
  /\ pc[1] = "loop"
  /\ indx[1] = 2
  /\ Len(validators[1]) = 3
  /\ DefaultStakedBalance = Balance_10Wei
  /\ storageMap[1][SlotKey(4)] = Word(20)
  /\ storageMap[1][SlotKey(0)] = Word(2)

\* The logical facts that the map of a list records, each a pair of its
\* kind and the position, address or slot it is about.
Facts(vs) ==
  {<<"array", i - 1>> : i \in 1..Len(vs)}
    \cup {<<"isValidator", a>> : a \in Range(vs)}
    \cup {<<"stakedAmount", a>> : a \in Range(vs)}
    \cup {<<"index", a>> : a \in Range(vs)}
    \cup (IF vs = <<>> THEN {} ELSE {<<"scalar", 4>>, <<"scalar", 0>>})
    \cup {<<"scalar", 5>>, <<"scalar", 6>>}

\* The key of a fact by the addressing rule of its kind.
FactKey(f) ==
  CASE f[1] = "array" -> ArrayKey(f[2])
    [] f[1] = "isValidator" -> MappingKey(f[2], 1)
    [] f[1] = "stakedAmount" -> MappingKey(f[2], 2)
    [] f[1] = "index" -> MappingKey(f[2], 3)
    [] f[1] = "scalar" -> SlotKey(f[2])

\* C21: in every returned map of a list of distinct addresses each key is
\* the key of exactly one logical fact: the keys of the map are the keys
\* of the facts, and no array-element key, mapping key or scalar key (0,
\* 4, 5, 6) of one fact is the key of another.
C21_NoKeyCollision ==
  \A p \in Procs :
    Returned(p) /\ Distinct(validators[p])
      => LET F == Facts(validators[p])
             m == Account(p).Storage
         IN /\ DOMAIN m = {FactKey(f) : f \in F}
            /\ \A f, g \in F : FactKey(f) = FactKey(g) => f = g
            /\ Cardinality(DOMAIN m) = Cardinality(F)

C21_Witness ==
  /\ Returned(1)
  /\ validators[1] = <<AddrA, AddrC, AddrB>>
  /\ Cardinality(Facts(validators[1])) = 16
  /\ {FactKey(<<"array", 2>>), FactKey(<<"index", AddrB>>),
      FactKey(<<"scalar", 0>>), FactKey(<<"scalar", 6>>)}
       \subseteq DOMAIN Account(1).Storage

\* A 32-byte word below 2^256 - 1 plus one, as a 256-bit unsigned integer.
PlusOne(w) ==
  LET last == CHOOSE i \in 1..32 :
                w[i] # 255 /\ \A j \in (i + 1)..32 : w[j] = 255
  IN [i \in 1..32 |-> IF i < last THEN w[i]
                      ELSE IF i = last THEN w[i] + 1
                      ELSE 0]

\* C22: array elements occupy consecutive keys from the hash of the slot.
\* The array-element key of index 0 is keccak(pad32(validators slot)), and
\* the key of index i + 1 is the key of index i plus 1, as 256-bit
\* unsigned integers.
C22_ConsecutiveArrayKeys ==
  \A c, d \in Calls(indexCalls) :
    /\ c.index = 0
         => BytesToHash(c.storageIndexes.ValidatorsIndex) = ArrayBase
    /\ d.index - c.index = 1
         => BytesToHash(d.storageIndexes.ValidatorsIndex)
              = PlusOne(BytesToHash(c.storageIndexes.ValidatorsIndex))

C22_Witness ==
  /\ Len(indexCalls) = 2
  /\ indexCalls[1].index = 156
  /\ indexCalls[2].index = 157
  /\ indexCalls[1].storageIndexes.ValidatorsIndex
       = [ArrayBase EXCEPT ![32] = 255]
  /\ indexCalls[2].storageIndexes.ValidatorsIndex
       = [ArrayBase EXCEPT ![31] = @ + 1, ![32] = 0]

\* The keys of a list that come out of the hash: array elements and
\* mapping entries.
HashedKeys(vs) ==
  {ArrayKey(i - 1) : i \in 1..Len(vs)}
    \cup {MappingKey(a, slot) : a \in Range(vs), slot \in 1..3}

\* C23: scalar and array-length keys are the slot numbers themselves.  As
\* 32-byte keys the staked-total key is 4, the min key 5, the max key 6
\* and the array-length key 0, the validators slot: the single byte of the
\* length key and the minimal big-endian encoding of the slot are the same
\* 32-byte key.  These are the keys of a returned map that do not come out
\* of the hash.
C23_ScalarKeysAreSlots ==
  \A p \in Procs :
    Returned(p)
      => LET vs == validators[p]
             m == Account(p).Storage
             storageIndexes == getStorageIndexes(AddrA, 0)
         IN /\ (DOMAIN m) \ HashedKeys(vs)
                 = IF vs = <<>> THEN {Word(5), Word(6)}
                   ELSE {Word(0), Word(4), Word(5), Word(6)}
            /\ BytesToHash(storageIndexes.StakedAmountIndex) = Word(4)
            /\ BytesToHash(storageIndexes.ValidatorsArraySizeIndex) = Word(0)
            /\ BytesToHash(storageIndexes.ValidatorsArraySizeIndex)
                 = BytesToHash(Bytes(BigNewInt(validatorsSlot)))

C23_Witness ==
  /\ Returned(1)
  /\ validators[1] = <<AddrB>>
  /\ (DOMAIN Account(1).Storage) \ HashedKeys(validators[1])
       = {Word(0), Word(4), Word(5), Word(6)}
  /\ getStorageIndexes(AddrB, 0).ValidatorsArraySizeIndex = <<0>>
  /\ Bytes(BigNewInt(validatorsSlot)) = <<>>

\* C24: the index and the array agree for every list, repeated addresses
\* included.  For every address A of the list the index-by-address entry
\* of A holds a position below N, the array-element entry of that position
\* holds A, and the position is that of the last occurrence of A.
C24_IndexArrayConsistent ==
  \A p \in Procs :
    Returned(p)
      => LET vs == validators[p]
             m == Account(p).Storage
         IN \A a \in Range(vs) :
              /\ MappingKey(a, 3) \in DOMAIN m
              /\ \E pos \in 0..(Len(vs) - 1) :
                   /\ m[MappingKey(a, 3)] = Word(pos)
                   /\ ArrayKey(pos) \in DOMAIN m
                   /\ m[ArrayKey(pos)] = AddressWord(a)
                   /\ vs[pos + 1] = a
                   /\ \A later \in (pos + 2)..Len(vs) : vs[later] # a

C24_Witness ==
  /\ Returned(1)
  /\ validators[1] = <<AddrB, AddrA, AddrB>>
  /\ Account(1).Storage[MappingKey(AddrB, 3)] = Word(2)
  /\ Account(1).Storage[ArrayKey(2)] = AddressWord(AddrB)
  /\ Account(1).Storage[ArrayKey(0)] = AddressWord(AddrB)
  /\ Account(1).Storage[MappingKey(AddrA, 3)] = Word(1)

RECURSIVE SumOfEntries(_, _)
\* The sum, as a magnitude, of the values of m under the keys K.
SumOfEntries(m, K) ==
  IF K = {} THEN <<>>
  ELSE LET k == CHOOSE x \in K : TRUE
       IN AddBytes(StripZeros(m[k]), SumOfEntries(m, K \ {k}))

\* a < b, for magnitudes without leading zero bytes.
Less(a, b) ==
  \/ Len(a) < Len(b)
  \/ /\ Len(a) = Len(b)
     /\ \E i \in 1..Len(a) :
          a[i] < b[i] /\ \A j \in 1..(i - 1) : a[j] = b[j]

\* C25: stake accounting.  For every list of pairwise distinct addresses
\* the sum of the staked-amount-by-address entries of the returned map
\* equals the staked-total entry and the balance of the account; with a
\* repeated address the balance and the staked-total entry are strictly
\* greater than that sum.  A key that is not in the map reads as zero,
\* which is the staked-total entry of the empty list.
C25_StakeAccounting ==
  \A p \in Procs :
    Returned(p)
      => LET m == Account(p).Storage
             sum == SumOfEntries(m, (DOMAIN m) \cap StakedAmountKeys)
             total == StripZeros(MapGet(m, SlotKey(4)))
             balance == Account(p).Balance
         IN /\ ~balance.neg
            /\ Distinct(validators[p])
                 => sum = total /\ sum = balance.abs
            /\ ~Distinct(validators[p])
                 => Less(sum, total) /\ Less(sum, balance.abs)

C25_Witness ==
  /\ Returned(1)
  /\ validators[1] = <<AddrA, AddrB, AddrC>>
  /\ DefaultStakedBalance = Balance_10ETH
  /\ SumOfEntries(Account(1).Storage,
                  (DOMAIN Account(1).Storage) \cap StakedAmountKeys)
       = MulSmall(<<138, 199, 35, 4, 137, 232, 0, 0>>, 3)
  /\ Account(1).Balance.abs = MulSmall(<<138, 199, 35, 4, 137, 232, 0, 0>>, 3)

\* C26: for every list of at least one validator the balance of the
\* returned account equals the value under the staked-total key (slot 4);
\* for the empty list the staked-total key and the array-length key are
\* not in the map and the balance is 0.
C26_BalanceIsStakedTotal ==
  \A p \in Procs :
    Returned(p)
      => LET m == Account(p).Storage
             balance == Account(p).Balance
         IN IF validators[p] # <<>>
            THEN /\ SlotKey(4) \in DOMAIN m
                 /\ ~balance.neg
                 /\ m[SlotKey(4)] = MagnitudeWord(balance.abs)
            ELSE /\ SlotKey(4) \notin DOMAIN m
                 /\ SlotKey(0) \notin DOMAIN m
                 /\ balance = [neg |-> FALSE, abs |-> <<>>]

C26_Witness ==
  /\ Returned(1)
  /\ validators[1] = <<AddrC, AddrC>>
  /\ DefaultStakedBalance = Balance_10Wei
  /\ Account(1).Storage[SlotKey(4)] = Word(20)
  /\ Account(1).Balance.abs = <<20>>

\* C27: for every list of N >= 1 entries with k distinct addresses the
\* returned map has exactly N + 3k + 4 entries: N array elements, three
\* mapping entries for each distinct address, the staked total, the array
\* length, the min and the max.
C27_GeneralEntryCount ==
  \A p \in Procs :
    Returned(p) /\ Len(validators[p]) >= 1
      => Cardinality(DOMAIN Account(p).Storage)
           = Len(validators[p]) + 3 * Cardinality(Range(validators[p])) + 4

C27_Witness ==
  /\ Returned(1)
  /\ validators[1] = <<AddrA, AddrB, AddrA>>
  /\ Cardinality(DOMAIN Account(1).Storage) = 13

\* A map without its min and max entries.
WithoutMinMax(m) ==
  {<<k, m[k]>> : k \in (DOMAIN m) \ {SlotKey(5), SlotKey(6)}}

\* C28: separation of inputs.  The entries under keys 5 and 6 depend on
\* params only: two invocations with the same params return the same two
\* entries, whatever their lists.  Every other entry, the balance and the
\* code depend on the validator list only: two invocations with the same
\* list return the same of these, whatever their params.
C28_SeparationOfInputs ==
  (Returned(1) /\ Returned(2))
    => LET m1 == Account(1).Storage
           m2 == Account(2).Storage
       IN /\ {SlotKey(5), SlotKey(6)} \subseteq (DOMAIN m1) \cap (DOMAIN m2)
          /\ params[1] = params[2]
               => /\ m1[SlotKey(5)] = m2[SlotKey(5)]
                  /\ m1[SlotKey(6)] = m2[SlotKey(6)]
          /\ validators[1] = validators[2]
               => /\ WithoutMinMax(m1) = WithoutMinMax(m2)
                  /\ Account(1).Balance = Account(2).Balance
                  /\ Account(1).Code = Account(2).Code

C28_Witness ==
  /\ Returned(1) /\ Returned(2)
  /\ validators[1] = <<AddrA, AddrB>>
  /\ validators[2] = <<AddrA, AddrB>>
  /\ params[1] = OneFive /\ params[2] = FiveOne
  /\ Account(1).Storage[SlotKey(5)] = Word(1)
  /\ Account(2).Storage[SlotKey(5)] = Word(5)
  /\ WithoutMinMax(Account(1).Storage) = WithoutMinMax(Account(2).Storage)

\* The entries of the map of (vs, pr) that are the same in every version:
\* array elements, is-validator flags, positions by address, the array
\* length, the min and the max.
VersionFreeEntries(vs, pr) ==
  {<<ArrayKey(i - 1), AddressWord(vs[i])>> : i \in 1..Len(vs)}
    \cup {<<MappingKey(a, 1), Word(1)>> : a \in Range(vs)}
    \cup {<<MappingKey(a, 3), Word(LastPosition(vs, a))>> : a \in Range(vs)}
    \cup (IF vs = <<>> THEN {} ELSE {<<SlotKey(0), Word(Len(vs))>>})
    \cup {<<SlotKey(5),
            BytesToHash(Bytes(BigNewIntOfUint64(pr.MinValidatorCount)))>>,
          <<SlotKey(6),
            BytesToHash(Bytes(BigNewIntOfUint64(pr.MaxValidatorCount)))>>}

\* The keys whose values depend on the default staked balance.
StakeKeys(vs) ==
  {MappingKey(a, 2) : a \in Range(vs)}
    \cup (IF vs = <<>> THEN {} ELSE {SlotKey(4)})

\* C29: the three versions (staking.go, unnamed/part_000,
\* unnamed/part_001) use the same slot constants and, for the same list
\* and params, return maps with the same keys and the same array-element,
\* is-validator, index-by-address, array-length, min and max entries: in
\* every version these are given by the list and the params alone.  The
\* versions differ only in the staked-amount-by-address values, the
\* staked-total value and the balance, which follow the default staked
\* balance (0xA in part_000, 0x8AC7230489E80000 in the other two), and in
\* the code bytes.
C29_VersionsAgree ==
  /\ validatorsSlot = 0 /\ addressToIsValidatorSlot = 1
  /\ addressToStakedAmountSlot = 2 /\ addressToValidatorIndexSlot = 3
  /\ stakedAmountSlot = 4 /\ minNumValidatorSlot = 5
  /\ maxNumValidatorSlot = 6
  /\ (DefaultStakedBalance = Balance_10Wei)
       <=> (StakingSCBytecode = Bytecode_part_000)
  /\ DefaultStakedBalance # Balance_10Wei
       => DefaultStakedBalance = Balance_10ETH
  /\ \A p \in Procs :
       Returned(p)
         => LET vs == validators[p]
                m == Account(p).Storage
            IN /\ DOMAIN m = {FactKey(f) : f \in Facts(vs)}
               /\ {e \in Entries(m) : e[1] \notin StakeKeys(vs)}
                    = VersionFreeEntries(vs, params[p])
               /\ \A a \in Range(vs) :
                    m[MappingKey(a, 2)] = MagnitudeWord(DefaultStake)
               /\ vs # <<>>
                    => m[SlotKey(4)] = MagnitudeWord(StakeOf(Len(vs)).abs)
               /\ Account(p).Balance = StakeOf(Len(vs))
               /\ Account(p).Code = DecodeHex(StakingSCBytecode).bytes

C29_Witness ==
  /\ Returned(1)
  /\ StakingSCBytecode = Bytecode_part_000
  /\ DefaultStakedBalance = Balance_10Wei
  /\ validators[1] = <<AddrA, AddrB>>
  /\ params[1] = OneFive
  /\ Account(1).Storage[MappingKey(AddrA, 2)] = Word(10)
  /\ Account(1).Storage[SlotKey(4)] = Word(20)
  /\ Account(1).Storage[MappingKey(AddrB, 3)] = Word(1)

ZeroParams ==
  [MinValidatorCount |-> Uint64(0), MaxValidatorCount |-> Uint64(0)]

\* C30: no defaults are applied to params.  The package-level
\* MinValidatorCount (1) and MaxValidatorCount play no part: an invocation
\* with zero-valued params stores 0 under the min key (5) and under the
\* max key (6), and both keys are in every returned map.
C30_NoDefaults ==
  \A p \in Procs :
    Returned(p)
      => LET m == Account(p).Storage
         IN /\ SlotKey(5) \in DOMAIN m
            /\ SlotKey(6) \in DOMAIN m
            /\ params[p].MinValidatorCount = Uint64(0)
                 => m[SlotKey(5)] = Word(0)
            /\ params[p].MaxValidatorCount = Uint64(0)
                 => m[SlotKey(6)] = Word(0)

C30_Witness ==
  /\ Returned(1)
  /\ params[1] = ZeroParams
  /\ validators[1] = <<AddrA>>
  /\ MinValidatorCount = Uint64(1)
  /\ MaxValidatorCount = MaxSafeJSInt
  /\ Account(1).Storage[SlotKey(5)] = ZeroHash
  /\ Account(1).Storage[SlotKey(6)] = ZeroHash

===========================================================================
